---- MODULE Spec2Model ----
(***************************************************************************)
(* The Teleporter client (src/src/client.rs) and its framing and delta     *)
(* helpers (src/src/utils.rs) as a state machine.                          *)
(*                                                                         *)
(* One behaviour is one call of client::run: for each file of the list a   *)
(* session on a fresh connection (optional Ecdh/EcdhAck, Init/InitAck,     *)
(* Data frames, terminal Data frame).  The peer is the network: what it    *)
(* replies is an input, drawn from the frames listed in each Next.         *)
(*                                                                         *)
(* Writes to the socket and reads of the source file succeed; what fails  *)
(* is what the peer can make fail: a frame that recv_packet or the payload *)
(* parser rejects, which ends run with Err.                                *)
(*                                                                         *)
(* Sizes are scaled so that files of a few bytes span several chunks: the  *)
(* scaled numbers are ChunkUnit (1024 in gen_chunk_size), ChunkRatio       *)
(* (2048), DefaultChunk (4096 in send) and U32_MAX (2^32 - 1).             *)
(***************************************************************************)
EXTENDS Integers, Sequences, FiniteSets, TLC

\* ------------------------------------------------------------------ bounds
NumFiles == 2       \* files in the list of one run under Spec
MaxFileLen == 4     \* longest file content under DeltaSpec
ChunkUnit == 2      \* utils.rs:147 starts the chunk size at 1024
ChunkRatio == 2     \* utils.rs:149 doubles while file_size / chunk > 2048
DefaultChunk == 2   \* client.rs:393 uses 4096 when InitAck has no delta
U32_MAX == 63       \* utils.rs:156 clamps at u32::MAX
MaxSize == 300      \* largest file size under SizeSpec
MaxPayload == 2     \* longest frame payload under StreamSpec
MaxFrames == 2      \* frames sent back to back under PipeSpec
MaxInput == 2       \* entries of the input list under NameSpec
TagLen == 1         \* bytes an AEAD seal adds to its plaintext (16)
MaxSessions == 2    \* connections the server accepts under ServerSpec
MaxSrvLen == 1      \* bytes one server session receives

Bytes == {0, 1}

\* File contents of at most n bytes.
Contents(n) == UNION {[1..k -> Bytes] : k \in 0..n}

\* The sample files of a run under Spec: empty, one chunk, two chunks.
ProtoFiles == {<< >>, <<1>>, <<1, 0, 1>>}

Min(a, b) == IF a < b THEN a ELSE b
Max(a, b) == IF a > b THEN a ELSE b

\* Option::None; every optional value of the model is a record.
None == [t |-> "None"]

\* ------------------------------------------------------- wire vocabulary
\* main.rs:84; the eight magic bytes, little-endian, spell this word.
PROTOCOL == "TELEPORT"

\* TeleportAction without the Encrypted flag (the flag is a field of its own).
ActionKinds == {"Init", "InitAck", "Ecdh", "EcdhAck", "Data"}

\* TeleportStatus, as matched in client.rs:286-321.
SkipStatuses == {"NoOverwrite", "NoPermission", "NoSpace"}
AbortStatuses == {"WrongVersion", "RequiresEncryption", "EncryptionError"}
Statuses == {"Proceed", "UnknownAction"} \cup SkipStatuses \cup AbortStatuses

\* ------------------------------------------------------------ utils.rs
\* xxh3 digest of a byte string, taken as collision free: two digests are
\* equal exactly when the hashed bytes are.
Xxh3(data) == [xxh3 |-> data]

\* The loop of gen_chunk_size doubling also at the ratio itself.
RECURSIVE gen_chunk_loop_ge(_, _)
gen_chunk_loop_ge(file_size, chunk) ==
    IF file_size \div chunk >= ChunkRatio
    THEN gen_chunk_loop_ge(file_size, chunk * 2)
    ELSE chunk

RECURSIVE gen_chunk_loop(_, _)
gen_chunk_loop(file_size, chunk) ==
    IF file_size \div chunk > ChunkRatio
    THEN gen_chunk_loop(file_size, chunk * 2)
    ELSE chunk

gen_chunk_size(file_size) ==
    LET chunk == gen_chunk_loop(file_size, ChunkUnit)
    IN  IF chunk > U32_MAX THEN U32_MAX ELSE chunk

\* file.read(&mut buf) at position pos: the bytes read overwrite the front
\* of buf, the rest of buf keeps what it held.
ReadInto(file, pos, buf) ==
    LET len == Min(Len(buf), Max(Len(file) - pos, 0))
    IN  [len |-> len,
         buf |-> [i \in 1..Len(buf) |-> IF i <= len THEN file[pos + i] ELSE buf[i]]]

\* The loop of calc_delta_hash: both hashers are fed the whole buffer.
RECURSIVE calc_delta_loop(_, _, _, _, _)
calc_delta_loop(file, pos, buf, whole, chunk_hash) ==
    LET r == ReadInto(file, pos, buf)
    IN  IF r.len = 0
        THEN [whole |-> whole, chunk_hash |-> chunk_hash]
        ELSE calc_delta_loop(file, pos + r.len, r.buf, whole \o r.buf,
                             Append(chunk_hash, Xxh3(r.buf)))

calc_delta_hash(file) ==
    LET size == gen_chunk_size(Len(file))
        r == calc_delta_loop(file, 0, [i \in 1..size |-> 0], << >>, << >>)
    IN  [t |-> "Delta",
         filesize |-> Len(file),
         chunk_size |-> size,
         hash |-> Xxh3(r.whole),
         chunk_hash |-> r.chunk_hash]

\* check_feature on an Option<u32>; the bitset is a set of feature names.
check_feature(o, check) == o # None /\ check \in o.bits

\* TeleportEnc::encrypt / decrypt: a sealed payload opens only under the key
\* it was sealed with.
encrypt(ctx, data) == [t |-> "Sealed", key |-> ctx.secret, plain |-> data]

decrypt(ctx, data) ==
    IF data.t = "Sealed" /\ data.key = ctx.secret
    THEN [ok |-> TRUE, data |-> data.plain]
    ELSE [ok |-> FALSE, data |-> None]

\* send_packet: the frame put on the wire.
send_packet(action, e, data) ==
    [dir |-> "tx",
     protocol |-> PROTOCOL,
     action |-> action,
     encrypted |-> e # None,
     data |-> IF e # None THEN encrypt(e, data) ELSE data,
     ok |-> TRUE]

\* recv_packet on the frame at the head of the stream: ok is FALSE when it
\* returns Err, else action and data are those of the TeleportHeader returned.
recv_packet(frame, dec) ==
    IF frame.protocol # PROTOCOL
    THEN [ok |-> FALSE, action |-> frame.action, data |-> None]
    ELSE IF frame.encrypted /\ dec # None
    THEN LET d == decrypt(dec, frame.data)
         IN  [ok |-> d.ok, action |-> frame.action, data |-> d.data]
    ELSE [ok |-> TRUE, action |-> frame.action, data |-> frame.data]

\* The record of a received frame kept in the connection's log.
RxEvent(frame, dec, r) ==
    [dir |-> "rx",
     protocol |-> frame.protocol,
     action |-> frame.action,
     encrypted |-> frame.encrypted,
     data |-> r.data,
     ok |-> r.ok,
     dec |-> dec]

\* ----------------------------------------------------------- receiver
\* The destination file under the receiver of spec section 4.6 step 6:
\* seek to offset and write data (a gap reads as zeros).
WriteAt(d, offset, data) ==
    [i \in 1..Max(Len(d), offset + Len(data)) |->
        IF i > offset /\ i <= offset + Len(data) THEN data[i - offset]
        ELSE IF i <= Len(d) THEN d[i]
        ELSE 0]

\* set_len(filesize): cut, or extend with zeros.
Truncate(d, n) == [i \in 1..n |-> IF i <= Len(d) THEN d[i] ELSE 0]

\* The destination after the receiver has handled one Data payload.
ServerData(d, chunk, filesize) ==
    IF chunk.data_len = 0 /\ chunk.offset = filesize
    THEN Truncate(d, filesize)
    ELSE WriteAt(d, chunk.offset, chunk.data)

\* ----------------------------------------------------------- client.rs
VARIABLES
    opt,        \* Opt: encrypt, overwrite, no_delta
    nfiles,     \* files.len()
    num,        \* index of the file of the current iteration, from 1
    pc,         \* where run stands
    file,       \* bytes of the source file of this iteration
    header,     \* TeleportInit of this iteration
    handle,     \* result of the spawned calc_delta_hash, None if not spawned
    enc,        \* Option<TeleportEnc> of this iteration
    recv,       \* TeleportInitAck received, None before
    file_delta, \* the joined client delta
    buf_len,    \* buf.len() in send
    send_sent,  \* `sent` of send: the file offset of the next chunk
    sent,       \* `sent` of run: files sent
    skip,       \* `skip` of run: files found the same
    wire,       \* frames sent and received on this iteration's connection
    dest0,      \* destination file before this session
    dst,        \* destination file at the receiver
    threads,    \* the hasher threads spawned so far, in order
    pending,    \* bytes written to a socket, not yet arrived at its other end
    sock,       \* bytes arrived at the socket recv_packet reads, unread
    sclosed,    \* the writing end of that socket is closed
    rpc,        \* where recv_packet stands
    initbuf,    \* the bytes the last peek returned
    need,       \* total_len of recv_packet
    rdec,       \* the `dec` recv_packet was called with
    rout,       \* the TeleportHeader recv_packet returned, None if none
    rerr,       \* the ErrorKind recv_packet returned, "none" if none
    consumed,   \* the number of bytes recv_packet has taken off the socket
    txd,        \* what was written to the socket
    txlog,      \* the send_packet calls made on the socket, in order
    rxlog,      \* the frames recv_packet has returned from it, in order
    srv,        \* the threads server::run has spawned, one per connection
    fs,         \* the server's files, by name
    listening,  \* server::run is in its accept loop
    input0,     \* the input list as the operator gave it
    input,      \* opt.input
    keep_path,  \* opt.keep_path
    rep,        \* the Replace that find_replacements returned
    files,      \* the file list of run
    filenames,  \* the wire filename of each file of the list
    npc         \* where run stands before its loop

vars == <<opt, nfiles, num, pc, file, header, handle, enc, recv, file_delta,
          buf_len, send_sent, sent, skip, wire, dest0, dst, threads,
          pending, sock, sclosed, rpc, initbuf, need, rdec, rout, rerr,
          consumed, txd, txlog, rxlog, srv, fs, listening,
          input0, input, keep_path, rep, files, filenames, npc>>

\* The variables of client::run and those of one socket under recv_packet.
runvars == <<opt, nfiles, num, pc, file, header, handle, enc, recv, file_delta,
             buf_len, send_sent, sent, skip, wire, dest0, dst, threads>>

rxvars == <<pending, sock, sclosed, rpc, initbuf, need, rdec, rout, rerr,
            consumed, txd, txlog, rxlog>>

srvvars == <<srv, fs, listening>>

namevars == <<input0, input, keep_path, rep, files, filenames, npc>>

sidevars == <<rxvars, srvvars, namevars>>

\* The names of the files of the server's directory.
Names == {"a", "b"}

\* The local key pair and the secret calc_secret derives from a peer key.
PubKey == [t |-> "PubKey", key |-> "client"]
PeerKey == [t |-> "PubKey", key |-> "peer"]
Garbage == [t |-> "Garbage"]

\* client.rs:185-212: the Init payload.
InitFeatures(o) ==
    (IF o.no_delta THEN {} ELSE {"Delta"})
    \cup (IF o.overwrite THEN {"Overwrite"} ELSE {})

TeleportInit(o, f) ==
    [t |-> "Init", features |-> InitFeatures(o), filesize |-> Len(f)]

\* match_status without the NoSpace arm.
match_status_no_space_arm(status) ==
    IF status \in SkipStatuses \ {"NoSpace"} THEN "continue"
    ELSE IF status \in AbortStatuses THEN "break"
    ELSE "proceed"

\* match_status with `continue` in the WrongVersion arm.
match_status_version_continue(status) ==
    IF status \in SkipStatuses \cup {"WrongVersion"} THEN "continue"
    ELSE IF status \in AbortStatuses THEN "break"
    ELSE "proceed"

\* client.rs:286-321: what the match on the status does.
match_status(status) ==
    IF status \in SkipStatuses THEN "continue"
    ELSE IF status \in AbortStatuses THEN "break"
    ELSE "proceed"

\* client.rs:332-334: the file is taken as already there.
same_hash(r, fd) ==
    r.delta # None /\ fd # None /\ fd.hash = r.delta.hash

\* send_data_complete with the offset left at 0.
complete_chunk_offset_zero(f) ==
    [t |-> "Data", offset |-> 0, data_len |-> 0, data |-> << >>]

\* client.rs:368-372: the chunk of send_data_complete.
complete_chunk(f) ==
    [t |-> "Data", offset |-> Len(f), data_len |-> 0, data |-> << >>]

\* The chunk of send with the chunk index in place of the byte offset.
data_chunk_index_offset(f, at, n) ==
    LET len == Min(n, Max(Len(f) - at, 0))
    IN  [t |-> "Data", offset |-> at \div n, data_len |-> len,
         data |-> [i \in 1..len |-> f[at + i]]]

\* client.rs:436-441: the chunk read at offset `at` into a buffer of n bytes.
data_chunk(f, at, n) ==
    LET len == Min(n, Max(Len(f) - at, 0))
    IN  [t |-> "Data", offset |-> at, data_len |-> len,
         data |-> [i \in 1..len |-> f[at + i]]]

\* The skip test of send comparing the first chunk's hashes for every chunk.
skip_chunk_first_hash(d, fd, index) ==
    /\ d # None
    /\ fd # None
    /\ index < Len(d.chunk_hash)
    /\ index < Len(fd.chunk_hash)
    /\ d.chunk_hash[1] = fd.chunk_hash[1]

\* client.rs:413-418: chunk `index` (from 0) is skipped.
skip_chunk(d, fd, index) ==
    /\ d # None
    /\ fd # None
    /\ index < Len(d.chunk_hash)
    /\ index < Len(fd.chunk_hash)
    /\ d.chunk_hash[index + 1] = fd.chunk_hash[index + 1]

\* client.rs:327: handle.map(|s| s.join()) waits for the hasher of file n
\* to finish and takes its result.
join(ts, n) ==
    [i \in DOMAIN ts |->
        IF ts[i].num = n THEN [ts[i] EXCEPT !.state = "joined"] ELSE ts[i]]

ClearSession ==
    /\ file' = << >>
    /\ header' = None
    /\ handle' = None
    /\ enc' = None
    /\ recv' = None
    /\ file_delta' = None
    /\ buf_len' = 0
    /\ send_sent' = 0
    /\ wire' = << >>
    /\ dest0' = << >>
    /\ dst' = << >>

\* client.rs:142-252: top of the loop body for file S, whose destination
\* holds D; the hasher is spawned, the header built, the connection opened.
Prepare(S, D) ==
    /\ pc = "start"
    /\ file' = S
    /\ header' = TeleportInit(opt, S)
    /\ handle' = IF opt.overwrite /\ ~opt.no_delta THEN calc_delta_hash(S) ELSE None
    /\ enc' = None
    /\ recv' = None
    /\ file_delta' = None
    /\ buf_len' = 0
    /\ send_sent' = 0
    /\ wire' = << >>
    /\ dest0' = D
    /\ dst' = D
    /\ threads' = IF opt.overwrite /\ ~opt.no_delta
                   THEN Append(threads, [num |-> num, state |-> "running"])
                   ELSE threads
    /\ pc' = IF opt.encrypt THEN "ecdh" ELSE "init"
    /\ UNCHANGED <<opt, nfiles, num, sent, skip>>
    /\ UNCHANGED sidevars

\* client.rs:257-260
SendEcdh ==
    /\ pc = "ecdh"
    /\ wire' = Append(wire, send_packet("Ecdh", None, PubKey))
    /\ pc' = "ecdh_ack"
    /\ UNCHANGED <<threads, opt, nfiles, num, file, header, handle, enc, recv, file_delta,
                   buf_len, send_sent, sent, skip, dest0, dst>>
    /\ UNCHANGED sidevars

\* client.rs:262-267: the reply to Ecdh is read with no crypto context.
RecvEcdhAck(frame) ==
    /\ pc = "ecdh_ack"
    /\ LET r == recv_packet(frame, None)
       IN  /\ wire' = Append(wire, RxEvent(frame, None, r))
           /\ IF ~r.ok
              THEN pc' = "error" /\ enc' = enc
              ELSE IF r.action = "EcdhAck"
              THEN IF r.data.t = "PubKey"
                   THEN pc' = "init" /\ enc' = [t |-> "Enc", secret |-> r.data.key]
                   ELSE pc' = "error" /\ enc' = enc
              ELSE pc' = "init" /\ enc' = enc
    /\ UNCHANGED <<threads, opt, nfiles, num, file, header, handle, recv, file_delta,
                   buf_len, send_sent, sent, skip, dest0, dst>>
    /\ UNCHANGED sidevars

\* client.rs:271
SendInit ==
    /\ pc = "init"
    /\ wire' = Append(wire, send_packet("Init", enc, header))
    /\ pc' = "init_ack"
    /\ UNCHANGED <<threads, opt, nfiles, num, file, header, handle, enc, recv, file_delta,
                   buf_len, send_sent, sent, skip, dest0, dst>>
    /\ UNCHANGED sidevars

\* client.rs:274-343: the reply to Init is read, taken as an InitAck, its
\* status matched, the hasher joined and the way of sending chosen.
RecvInitAck(frame) ==
    /\ pc = "init_ack"
    /\ LET r == recv_packet(frame, enc)
       IN  /\ wire' = Append(wire, RxEvent(frame, enc, r))
           /\ IF ~r.ok \/ r.data.t # "InitAck"
              THEN /\ pc' = "error"
                   /\ UNCHANGED <<recv, file_delta, buf_len>>
              ELSE /\ recv' = r.data
                   /\ LET m == match_status(r.data.status)
                          fd == IF check_feature(r.data.features, "Overwrite")
                                THEN handle ELSE None
                      IN  IF m = "continue"
                          THEN pc' = "end_iter" /\ UNCHANGED <<file_delta, buf_len>>
                          ELSE IF m = "break"
                          THEN pc' = "done" /\ UNCHANGED <<file_delta, buf_len>>
                          ELSE /\ file_delta' = fd
                               /\ IF same_hash(r.data, fd)
                                  THEN pc' = "same" /\ buf_len' = buf_len
                                  ELSE /\ pc' = "send"
                                       /\ buf_len' = IF r.data.delta # None
                                                     THEN r.data.delta.chunk_size
                                                     ELSE DefaultChunk
           /\ threads' = IF /\ r.ok
                             /\ r.data.t = "InitAck"
                             /\ match_status(r.data.status) = "proceed"
                             /\ check_feature(r.data.features, "Overwrite")
                          THEN join(threads, num)
                          ELSE threads
    /\ UNCHANGED <<opt, nfiles, num, file, header, handle, enc,
                   send_sent, sent, skip, dest0, dst>>
    /\ UNCHANGED sidevars

\* client.rs:337-338: send_data_complete and the file counted as Same.
SendSame ==
    /\ pc = "same"
    /\ wire' = Append(wire, send_packet("Data", enc, complete_chunk(file)))
    /\ dst' = ServerData(dst, complete_chunk(file), header.filesize)
    /\ skip' = skip + 1
    /\ pc' = "end_iter"
    /\ UNCHANGED <<threads, opt, nfiles, num, file, header, handle, enc, recv, file_delta,
                   buf_len, send_sent, sent, dest0>>
    /\ UNCHANGED sidevars

\* client.rs:413-422: one turn of the loop of send that skips a chunk.
SendSkip ==
    /\ pc = "send"
    /\ buf_len # 0
    /\ skip_chunk(recv.delta, file_delta, send_sent \div buf_len)
    /\ send_sent' = send_sent + buf_len
    /\ UNCHANGED <<threads, opt, nfiles, num, pc, file, header, handle, enc, recv,
                   file_delta, buf_len, sent, skip, wire, dest0, dst>>
    /\ UNCHANGED sidevars

\* client.rs:424-447: one turn of the loop of send that sends a chunk.
SendChunk ==
    /\ pc = "send"
    /\ buf_len # 0
    /\ ~skip_chunk(recv.delta, file_delta, send_sent \div buf_len)
    /\ LET chunk == data_chunk(file, send_sent, buf_len)
       IN  /\ chunk.data_len # 0
           /\ wire' = Append(wire, send_packet("Data", enc, chunk))
           /\ dst' = ServerData(dst, chunk, header.filesize)
           /\ send_sent' = send_sent + chunk.data_len
    /\ UNCHANGED <<threads, opt, nfiles, num, pc, file, header, handle, enc, recv,
                   file_delta, buf_len, sent, skip, dest0>>
    /\ UNCHANGED sidevars

\* client.rs:431-434, 450 and 342: a read of length 0 ends the loop,
\* send_data_complete follows and the file is counted as Sent.
SendComplete ==
    /\ pc = "send"
    /\ buf_len # 0
    /\ ~skip_chunk(recv.delta, file_delta, send_sent \div buf_len)
    /\ data_chunk(file, send_sent, buf_len).data_len = 0
    /\ wire' = Append(wire, send_packet("Data", enc, complete_chunk(file)))
    /\ dst' = ServerData(dst, complete_chunk(file), header.filesize)
    /\ sent' = sent + 1
    /\ pc' = "end_iter"
    /\ UNCHANGED <<threads, opt, nfiles, num, file, header, handle, enc, recv, file_delta,
                   buf_len, send_sent, skip, dest0>>
    /\ UNCHANGED sidevars

\* client.rs:413: `sent / buf.len()` with an empty buffer (a delta whose
\* chunk_size is 0) is a division by zero: the thread of run panics.
SendPanic ==
    /\ pc = "send"
    /\ buf_len = 0
    /\ pc' = "panic"
    /\ UNCHANGED <<threads, opt, nfiles, num, file, header, handle, enc, recv, file_delta,
                   buf_len, send_sent, sent, skip, wire, dest0, dst>>
    /\ UNCHANGED sidevars

\* client.rs:142 and 350-358: the next turn of the for loop, or its end.
NextFile ==
    /\ pc = "end_iter"
    /\ num' = num + 1
    /\ pc' = IF num < nfiles THEN "start" ELSE "done"
    /\ ClearSession
    /\ UNCHANGED <<opt, nfiles, sent, skip, threads>>
    /\ UNCHANGED sidevars

\* ------------------------------------------------------ what the peer sends
\* InitAck payloads: the delta, when there is one, is that of the
\* destination file.
InitAcks(statuses, D) ==
    [t : {"InitAck"},
     status : statuses,
     features : {None, [bits |-> {"Overwrite"}]},
     delta : {None, calc_delta_hash(D)}]

\* A frame as the peer puts it on the wire: sealed or not, flagged or not.
PeerFrame(action, flagged, sealed, payload) ==
    [protocol |-> PROTOCOL,
     action |-> action,
     encrypted |-> flagged,
     data |-> IF sealed THEN encrypt([secret |-> PeerKey.key], payload) ELSE payload]

BadMagic == [protocol |-> "TROPELET", action |-> "InitAck", encrypted |-> FALSE,
             data |-> Garbage]

\* Replies to Ecdh: an EcdhAck (flagged or not, well formed or not), a frame
\* of another action, a frame of another protocol.
EcdhReplies ==
    {PeerFrame("EcdhAck", fl, FALSE, p) : fl \in BOOLEAN, p \in {PeerKey, Garbage}}
    \cup {PeerFrame(a, FALSE, FALSE, Garbage) : a \in {"InitAck", "Data"}}
    \cup {BadMagic}

\* Replies to Init: an InitAck of any status (flagged frames are sealed when
\* the session has a key), an InitAck payload under another action, a
\* flagged frame that is not sealed, a sealed frame that is not flagged, a
\* payload that does not parse, a frame of another protocol.
InitReplies(D) ==
    {PeerFrame("InitAck", fl, fl /\ enc # None, p) :
        fl \in BOOLEAN, p \in InitAcks(Statuses, D)}
    \cup {PeerFrame("Data", FALSE, FALSE, p) : p \in InitAcks({"Proceed"}, << >>)}
    \cup {PeerFrame("InitAck", TRUE, FALSE, p) : p \in InitAcks({"Proceed"}, << >>)}
    \cup {PeerFrame("InitAck", FALSE, TRUE, p) : p \in InitAcks({"Proceed"}, << >>)}
    \cup {PeerFrame("InitAck", FALSE, FALSE, Garbage), BadMagic}

Opts == [encrypt : BOOLEAN, overwrite : BOOLEAN, no_delta : BOOLEAN]

InitWith(o, n) ==
    /\ opt = o
    /\ nfiles = n
    /\ num = 1
    /\ pc = "start"
    /\ file = << >>
    /\ header = None
    /\ handle = None
    /\ enc = None
    /\ recv = None
    /\ file_delta = None
    /\ buf_len = 0
    /\ send_sent = 0
    /\ sent = 0
    /\ skip = 0
    /\ wire = << >>
    /\ dest0 = << >>
    /\ dst = << >>
    /\ threads = << >>
    /\ pending = << >>
    /\ sock = << >>
    /\ sclosed = FALSE
    /\ rpc = "idle"
    /\ initbuf = << >>
    /\ need = 0
    /\ rdec = None
    /\ rout = None
    /\ rerr = "none"
    /\ consumed = 0
    /\ txd = None
    /\ txlog = << >>
    /\ rxlog = << >>
    /\ srv = << >>
    /\ fs = [name \in Names |-> [exists |-> FALSE, data |-> << >>]]
    /\ listening = FALSE
    /\ input0 = << >>
    /\ input = << >>
    /\ keep_path = FALSE
    /\ rep = [orig |-> << >>, new |-> << >>]
    /\ files = << >>
    /\ filenames = << >>
    /\ npc = "args"

\* client::run on a list of NumFiles files against any peer.
Init == \E o \in Opts : InitWith(o, NumFiles)

Next ==
    \/ \E S \in ProtoFiles, D \in ProtoFiles : Prepare(S, D)
    \/ SendEcdh
    \/ \E f \in EcdhReplies : RecvEcdhAck(f)
    \/ SendInit
    \/ \E f \in InitReplies(dest0) : RecvInitAck(f)
    \/ SendSame
    \/ SendSkip
    \/ SendChunk
    \/ SendComplete
    \/ NextFile

Spec == Init /\ [][Next]_vars

\* client::run on one file, without encryption, against a receiver that
\* answers Proceed: every source and destination content up to MaxFileLen.
DeltaReplies(D) ==
    {PeerFrame("InitAck", FALSE, FALSE, p) : p \in InitAcks({"Proceed"}, D)}

\* Deltas a peer can make up for source S: a chunk size of its choice (0
\* included) and more chunk hashes than the client has, the client's own
\* among them. What run does with them does not depend on the destination:
\* DeltaNext offers them beside an empty destination only.
ForgedDeltas(S) ==
    {[t |-> "Delta",
      filesize |-> Len(S),
      chunk_size |-> c,
      hash |-> Xxh3(<<"forged">>),
      chunk_hash |-> calc_delta_hash(S).chunk_hash \o calc_delta_hash(S).chunk_hash] :
        c \in {0, 1, 3}}

ForgedReplies(S) ==
    {PeerFrame("InitAck", FALSE, FALSE,
               [t |-> "InitAck", status |-> "Proceed",
                features |-> [bits |-> {"Overwrite"}], delta |-> d]) :
        d \in ForgedDeltas(S)}

DeltaInit ==
    \E o \in {x \in Opts : ~x.encrypt} : InitWith(o, 1)

DeltaNext ==
    \/ \E S \in Contents(MaxFileLen), D \in Contents(MaxFileLen) : Prepare(S, D)
    \/ SendInit
    \/ \E f \in DeltaReplies(dest0) : RecvInitAck(f)
    \/ \E f \in ForgedReplies(file) : dest0 = << >> /\ RecvInitAck(f)
    \/ SendSame
    \/ SendSkip
    \/ SendChunk
    \/ SendComplete
    \/ SendPanic
    \/ NextFile

DeltaSpec == DeltaInit /\ [][DeltaNext]_vars

\* client.rs:168-170: a spawned hasher thread comes to the end of
\* calc_delta_hash on its own, whether or not run still holds its handle.
HasherRun ==
    /\ \E i \in DOMAIN threads :
          /\ threads[i].state = "running"
          /\ threads' = [threads EXCEPT ![i].state = "finished"]
    /\ UNCHANGED <<opt, nfiles, num, pc, file, header, handle, enc, recv,
                   file_delta, buf_len, send_sent, sent, skip, wire, dest0, dst>>
    /\ UNCHANGED sidevars

\* client::run without encryption, its hasher threads running beside it.
HasherReplies(D) ==
    {PeerFrame("InitAck", FALSE, FALSE, a) :
        a \in InitAcks({"Proceed", "NoOverwrite", "WrongVersion"}, D)}

HasherInit ==
    \E o \in {q \in Opts : ~q.encrypt} : InitWith(o, NumFiles)

HasherNext ==
    \/ \E S \in ProtoFiles, D \in ProtoFiles : Prepare(S, D)
    \/ SendInit
    \/ \E f \in HasherReplies(dest0) : RecvInitAck(f)
    \/ SendSame
    \/ SendSkip
    \/ SendChunk
    \/ SendComplete
    \/ NextFile
    \/ HasherRun

HasherSpec == HasherInit /\ [][HasherNext]_vars

\* client::run on one file of each size up to MaxSize, refused by the peer:
\* the spawned hasher picks the chunk size of every size.
ZeroFiles(n) == {[i \in 1..k |-> 0] : k \in 0..n}

SizeReplies ==
    {PeerFrame("InitAck", FALSE, FALSE,
               [t |-> "InitAck", status |-> "NoOverwrite",
                features |-> None, delta |-> None])}

SizeInit ==
    InitWith([encrypt |-> FALSE, overwrite |-> TRUE, no_delta |-> FALSE], 1)

SizeNext ==
    \/ \E S \in ZeroFiles(MaxSize) : Prepare(S, << >>)
    \/ SendInit
    \/ \E f \in SizeReplies : RecvInitAck(f)
    \/ NextFile

SizeSpec == SizeInit /\ [][SizeNext]_vars

\* ---------------------------------------------------------- frames as bytes
\* utils.rs:104: the peek buffer; utils.rs:124: the IV that follows the
\* payload of an encrypted frame.
HeaderLen == 13
IvLen == 12

\* PROTOCOL (0x54524F50454C4554) as read_u64::<LittleEndian> finds it on the
\* wire: the bytes of "TELEPORT".
Magic == <<84, 69, 76, 69, 80, 79, 82, 84>>

\* TeleportAction as u8: the kinds in the low bits, Encrypted the high bit.
ActionOrder == <<"Init", "InitAck", "Ecdh", "EcdhAck", "Data">>
ActionCode(kind) == CHOOSE i \in DOMAIN ActionOrder : ActionOrder[i] = kind
Encrypted == 128

ActionOfCode(code) ==
    IF code \in DOMAIN ActionOrder THEN ActionOrder[code] ELSE "Invalid"

\* write_u32 / read_u32::<LittleEndian>
write_u32(n) ==
    <<n % 256, (n \div 256) % 256, (n \div 65536) % 256, (n \div 16777216) % 256>>

read_u32(b) == b[1] + 256 * b[2] + 65536 * b[3] + 16777216 * b[4]

\* Payload bytes on the wire: plain bytes, the bytes of a sealed payload
\* (its plaintext's length and the tag), the bytes of an IV.
PlainBytes(n) == UNION {[1..k -> {[b |-> x] : x \in Bytes}] : k \in 0..n}

CipherBytes(sealed) ==
    [i \in 1..(Len(sealed.plain) + TagLen) |-> [ct |-> sealed, at |-> i]]

IvBytes == [i \in 1..IvLen |-> [iv |-> i]]

\* The payload a run of wire bytes stands for.
DataOf(cells) ==
    IF cells # << >> /\ "ct" \in DOMAIN cells[1] /\ cells = CipherBytes(cells[1].ct)
    THEN cells[1].ct
    ELSE cells

\* TeleportHeader::serialize on the frame send_packet has built: magic,
\* payload length, action with its flag, payload, and the IV of an
\* encrypted frame.
serialize(frame) ==
    LET body == IF frame.encrypted THEN CipherBytes(frame.data) ELSE frame.data
    IN  Magic
        \o write_u32(Len(body))
        \o <<ActionCode(frame.action) + (IF frame.encrypted THEN Encrypted ELSE 0)>>
        \o body
        \o (IF frame.encrypted THEN IvBytes ELSE << >>)

\* TeleportHeader::deserialize on a whole frame: the action byte as it is on
\* the wire, the payload of the stated length, and what follows it as IV.
deserialize(buf) ==
    LET len == read_u32(SubSeq(buf, 9, 12))
    IN  [action |-> buf[13],
         data |-> SubSeq(buf, HeaderLen + 1, HeaderLen + len),
         iv |-> SubSeq(buf, HeaderLen + len + 1, Len(buf))]

\* The magic test of recv_packet reading a low word only.
protocol_ok_low_word(init) == SubSeq(init, 1, 4) = SubSeq(Magic, 1, 4)

\* utils.rs:111-113: protocol == PROTOCOL, on the first 8 bytes of initbuf.
protocol_ok(init) == SubSeq(init, 1, 8) = Magic

\* utils.rs:122: action & Encrypted == Encrypted
is_encrypted(action) == (action \div Encrypted) % 2 = 1

\* total_len without the IV of an encrypted frame.
total_len_no_iv(packet_len, action) == HeaderLen + packet_len

\* utils.rs:120-125
total_len(packet_len, action) ==
    HeaderLen + packet_len + (IF is_encrypted(action) THEN IvLen ELSE 0)

\* The flag of a received action left in place.
clear_encrypted_kept(action) == action

\* utils.rs:137: out.action ^= Encrypted
clear_encrypted(action) ==
    IF is_encrypted(action) THEN action - Encrypted ELSE action + Encrypted

\* utils.rs:133-143: the frame recv_packet has read, as recv_packet(frame, dec)
\* takes it.
FrameOf(buf) ==
    LET out == deserialize(buf)
    IN  [protocol |-> IF protocol_ok(buf) THEN PROTOCOL ELSE "other",
         action |-> ActionOfCode(IF is_encrypted(out.action)
                                 THEN clear_encrypted(out.action)
                                 ELSE out.action),
         encrypted |-> is_encrypted(out.action),
         data |-> DataOf(out.data)]

\* utils.rs:64-98: send_packet writes the serialized frame to the socket.
StreamSend(action, e, data) ==
    /\ txd = None
    /\ ~sclosed
    /\ pending' = serialize(send_packet(action, e, data))
    /\ txd' = [t |-> "Sent", action |-> action, enc |-> e, data |-> data]
    /\ UNCHANGED <<sock, sclosed, rpc, initbuf, need, rdec, rout, rerr, consumed>>
    /\ txlog' = <<[action |-> action, enc |-> e, data |-> data]>>
    /\ rxlog' = rxlog
    /\ UNCHANGED <<runvars, srvvars, namevars>>

\* A peer that writes bytes of its own making.
StreamForge(bytes) ==
    /\ txd = None
    /\ ~sclosed
    /\ pending' = bytes
    /\ txd' = [t |-> "Forged"]
    /\ UNCHANGED <<sock, sclosed, rpc, initbuf, need, rdec, rout, rerr, consumed>>
    /\ UNCHANGED <<txlog, rxlog>>
    /\ UNCHANGED <<runvars, srvvars, namevars>>

\* The network delivers the next k bytes.
Arrive(k) ==
    /\ k \in 1..Len(pending)
    /\ sock' = sock \o SubSeq(pending, 1, k)
    /\ pending' = SubSeq(pending, k + 1, Len(pending))
    /\ UNCHANGED <<sclosed, rpc, initbuf, need, rdec, rout, rerr, consumed, txd>>
    /\ UNCHANGED <<txlog, rxlog>>
    /\ UNCHANGED <<runvars, srvvars, namevars>>

\* The peer closes its end; what it had not sent by then never arrives.
Close ==
    /\ ~sclosed
    /\ pending = << >> \/ txd # None
    /\ sclosed' = TRUE
    /\ pending' = << >>
    /\ UNCHANGED <<sock, rpc, initbuf, need, rdec, rout, rerr, consumed, txd>>
    /\ UNCHANGED <<txlog, rxlog>>
    /\ UNCHANGED <<runvars, srvvars, namevars>>

\* utils.rs:100-104: recv_packet is called.
RxCall(dec) ==
    /\ rpc = "idle"
    /\ rdec' = dec
    /\ rpc' = "peek"
    /\ UNCHANGED <<pending, sock, sclosed, initbuf, need, rout, rerr, consumed, txd>>
    /\ UNCHANGED <<txlog, rxlog>>
    /\ UNCHANGED <<runvars, srvvars, namevars>>

\* utils.rs:106: sock.peek(&mut initbuf) blocks until bytes are there or the
\* peer has closed, and returns up to 13 bytes without taking them.
RxPeek ==
    /\ rpc = "peek"
    /\ sock # << >> \/ sclosed
    /\ initbuf' = SubSeq(sock, 1, Min(HeaderLen, Len(sock)))
    /\ rpc' = "test"
    /\ UNCHANGED <<pending, sock, sclosed, need, rdec, rout, rerr, consumed, txd>>
    /\ UNCHANGED <<txlog, rxlog>>
    /\ UNCHANGED <<runvars, srvvars, namevars>>

\* utils.rs:107-125: the loop goes round unless the peek returned 13 bytes;
\* then the magic is tested and total_len computed.
RxTest ==
    /\ rpc = "test"
    /\ IF Len(initbuf) # HeaderLen
       THEN rpc' = "peek" /\ UNCHANGED <<need, rerr>>
       ELSE IF ~protocol_ok(initbuf)
       THEN rpc' = "err" /\ rerr' = "InvalidData" /\ need' = need
       ELSE /\ need' = total_len(read_u32(SubSeq(initbuf, 9, 12)), initbuf[13])
            /\ rpc' = "read"
            /\ rerr' = rerr
    /\ UNCHANGED <<pending, sock, sclosed, initbuf, rdec, rout, consumed, txd>>
    /\ UNCHANGED <<txlog, rxlog>>
    /\ UNCHANGED <<runvars, srvvars, namevars>>

\* utils.rs:127-143: read_exact takes total_len bytes off the socket, or
\* what is left of it when the peer has closed; the frame is deserialized,
\* its flag cleared and its payload decrypted.
RxRead ==
    /\ rpc = "read"
    /\ Len(sock) >= need \/ sclosed
    /\ IF Len(sock) < need
       THEN /\ sock' = << >>
            /\ consumed' = consumed + Len(sock)
            /\ rpc' = "err"
            /\ rerr' = "UnexpectedEof"
            /\ rout' = rout
       ELSE LET r == recv_packet(FrameOf(SubSeq(sock, 1, need)), rdec)
            IN  /\ sock' = SubSeq(sock, need + 1, Len(sock))
                /\ consumed' = consumed + need
                /\ rpc' = IF r.ok THEN "ok" ELSE "err"
                /\ rerr' = IF r.ok THEN rerr ELSE "Other"
                /\ rout' = IF r.ok THEN [action |-> r.action, data |-> r.data]
                                   ELSE rout
    /\ rxlog' = IF rpc' = "ok"
                THEN Append(rxlog, [init |-> initbuf, took |-> consumed' - consumed,
                                    action |-> rout'.action, data |-> rout'.data])
                ELSE rxlog
    /\ UNCHANGED <<pending, sclosed, initbuf, need, rdec, txd, txlog>>
    /\ UNCHANGED <<runvars, srvvars, namevars>>

\* utils.rs:64-98: a further send_packet on the same socket; its bytes
\* follow those of the frames before.
StreamSendNext(action, e, data) ==
    /\ txd # None
    /\ txd.t = "Sent"
    /\ Len(txlog) < MaxFrames
    /\ ~sclosed
    /\ pending' = pending \o serialize(send_packet(action, e, data))
    /\ txlog' = Append(txlog, [action |-> action, enc |-> e, data |-> data])
    /\ UNCHANGED <<sock, sclosed, rpc, initbuf, need, rdec, rout, rerr, consumed,
                   txd, rxlog>>
    /\ UNCHANGED <<runvars, srvvars, namevars>>

\* utils.rs:100-104: recv_packet is called again on the socket once it has
\* returned a frame.
RxAgain ==
    /\ rpc = "ok"
    /\ rpc' = "peek"
    /\ rout' = None
    /\ UNCHANGED <<pending, sock, sclosed, initbuf, need, rdec, rerr, consumed,
                   txd, txlog, rxlog>>
    /\ UNCHANGED <<runvars, srvvars, namevars>>

\* The crypto contexts of the two ends of a socket.
StreamKeys == {None, [t |-> "Enc", secret |-> "k1"], [t |-> "Enc", secret |-> "k2"]}

\* Byte streams whose first 8 bytes are not the magic: one byte of it
\* changed, the length and action fields well formed.
BadMagicStreams ==
    {[Magic EXCEPT ![j] = 0] \o write_u32(Len(body)) \o <<a>> \o body \o tail :
        j \in 1..8,
        body \in {p \in PlainBytes(MaxPayload) : Len(p) = MaxPayload},
        a \in {ActionCode("InitAck")},
        tail \in {<< >>}}
    \cup
    {[Magic EXCEPT ![j] = 0] \o write_u32(0) \o <<ActionCode("Data") + Encrypted>> \o IvBytes :
        j \in 1..8}

\* send_packet and recv_packet at the two ends of one socket.
StreamInit ==
    InitWith([encrypt |-> FALSE, overwrite |-> FALSE, no_delta |-> FALSE], NumFiles)

StreamNext ==
    \/ \E a \in ActionKinds, e \in StreamKeys, d \in PlainBytes(MaxPayload) :
          StreamSend(a, e, d)
    \/ \E b \in BadMagicStreams : StreamForge(b)
    \/ \E k \in 1..(HeaderLen + MaxPayload + TagLen + IvLen) : Arrive(k)
    \/ Close
    \/ \E dec \in StreamKeys : RxCall(dec)
    \/ RxPeek
    \/ RxTest
    \/ RxRead

StreamSpec == StreamInit /\ [][StreamNext]_vars

\* The thread in recv_packet keeps running.
StreamFair ==
    /\ StreamSpec
    /\ WF_vars(RxPeek)
    /\ WF_vars(RxTest)
    /\ WF_vars(RxRead)

\* Frames sent back to back on one socket and read one after the other.
PipeKeys == {None, [t |-> "Enc", secret |-> "k1"]}

\* An Init without payload bytes and a Data with a full payload, each in
\* plaintext and encrypted.
PipeFrames ==
    {[action |-> "Init", enc |-> e, data |-> << >>] : e \in PipeKeys}
    \cup
    {[action |-> "Data", enc |-> e, data |-> [i \in 1..MaxPayload |-> [b |-> 1]]] :
        e \in PipeKeys}

PipeNext ==
    \/ \E f \in PipeFrames : StreamSend(f.action, f.enc, f.data)
    \/ \E f \in PipeFrames : StreamSendNext(f.action, f.enc, f.data)
    \/ \E k \in 1..(MaxFrames * (HeaderLen + MaxPayload + TagLen + IvLen)) : Arrive(k)
    \/ Close
    \/ \E dec \in PipeKeys : RxCall(dec)
    \/ RxPeek
    \/ RxTest
    \/ RxRead
    \/ RxAgain

PipeSpec == StreamInit /\ [][PipeNext]_vars

\* ------------------------------------------------------ names on the wire
\* Strings are sequences of characters; str::contains is a substring test.
contains(s, t) ==
    \E i \in 1..(Len(s) - Len(t) + 1) : SubSeq(s, i, i + Len(t) - 1) = t

\* The part of s before its first c, and what follows that c.
RECURSIVE before(_, _)
before(s, c) ==
    IF s = << >> \/ Head(s) = c THEN << >> ELSE <<Head(s)>> \o before(Tail(s), c)

after(s, c) == SubSeq(s, Len(before(s, c)) + 2, Len(s))

\* Path::file_name: what follows the last '/'.
RECURSIVE file_name(_)
file_name(s) == IF contains(s, <<"/">>) THEN file_name(after(s, "/")) ELSE s

\* The files File::open opens: those of the working directory.
Disk == {<<"a">>, <<"a", "b">>, <<"d", "/", "a">>}

\* client.rs:82-105: the first loop of find_replacements from entry idx on
\* (indexes from 0, as in the code); poppers is the list of indexes.
RECURSIVE scan_input(_, _, _)
scan_input(list, idx, r) ==
    IF idx >= Len(list) THEN r
    ELSE LET item == list[idx + 1]
             orig == before(item, ":")
             new == before(after(item, ":"), ":")
         IN  IF item \in Disk THEN scan_input(list, idx + 1, r)
             ELSE IF contains(item, <<":">>) /\ orig \in Disk
             THEN scan_input(list, idx + 1,
                             [orig |-> Append(r.orig, orig),
                              new |-> Append(r.new, new),
                              poppers |-> Append(r.poppers, idx)])
             ELSE scan_input(list, idx + 1, r)

\* client.rs:107-116: the entries at the indexes of poppers, taken from the
\* last, are removed and the original name inserted in their place.
RECURSIVE pop_input(_, _, _)
pop_input(list, poppers, orig) ==
    IF poppers = << >> THEN list
    ELSE LET idx == poppers[Len(poppers)]
             rest == SubSeq(poppers, 1, Len(poppers) - 1)
             removed == SubSeq(list, 1, idx) \o SubSeq(list, idx + 2, Len(list))
             inserted == SubSeq(removed, 1, idx) \o <<orig[Len(rest) + 1]>>
                         \o SubSeq(removed, idx + 1, Len(removed))
         IN  pop_input(inserted, rest, orig)

\* find_replacements: the Replace returned and opt.input as it leaves it.
find_replacements(list) ==
    LET r == scan_input(list, 0, [orig |-> << >>, new |-> << >>, poppers |-> << >>])
    IN  [rep |-> [orig |-> r.orig, new |-> r.new],
         input |-> pop_input(list, r.poppers, r.orig)]

\* client.rs:15-38: get_file_list without -r: the entries that are files.
RECURSIVE get_file_list(_)
get_file_list(list) ==
    IF list = << >> THEN << >>
    ELSE (IF Head(list) \in Disk THEN <<Head(list)>> ELSE << >>)
         \o get_file_list(Tail(list))

\* client.rs:147-154: the loop over rep.orig from idx on; filename is
\* replaced whenever the original name contains the file's path.
RECURSIVE replaced_name(_, _, _, _)
replaced_name(filepath, r, idx, filename) ==
    IF idx >= Len(r.orig) THEN filename
    ELSE replaced_name(filepath, r, idx + 1,
                       IF contains(r.orig[idx + 1], filepath)
                       THEN r.new[idx + 1] ELSE filename)

\* client.rs:147-183: the filename put in the Init of the file.
wire_name(filepath, r, keep) ==
    LET filename == replaced_name(filepath, r, 0, filepath)
    IN  IF keep THEN filename ELSE file_name(filename)

\* The entries an operator may give: files, files to rename, and a
\* renaming of a file that is not there.
Entries ==
    Disk \cup {<<"a", ":", "x">>,
                <<"a", "b", ":", "y">>,
                <<"d", "/", "a", ":", "e", "/", "z">>,
                <<"q", ":", "x">>}

InputLists == UNION {[1..k -> Entries] : k \in 1..MaxInput}

\* client.rs:122: run is called with the operator's options.
RunArgs(list, keep) ==
    /\ npc = "args"
    /\ input0' = list
    /\ input' = list
    /\ keep_path' = keep
    /\ npc' = "replace"
    /\ UNCHANGED <<rep, files, filenames, runvars, rxvars, srvvars>>

\* client.rs:129
FindReplacements ==
    /\ npc = "replace"
    /\ rep' = find_replacements(input).rep
    /\ input' = find_replacements(input).input
    /\ npc' = "list"
    /\ UNCHANGED <<input0, keep_path, files, filenames, runvars, rxvars, srvvars>>

\* client.rs:132
GetFileList ==
    /\ npc = "list"
    /\ files' = get_file_list(input)
    /\ npc' = "names"
    /\ UNCHANGED <<input0, input, keep_path, rep, filenames, runvars, rxvars, srvvars>>

\* client.rs:141-183: the filename of the next file of the list.
WireName ==
    /\ npc = "names"
    /\ Len(filenames) < Len(files)
    /\ filenames' = Append(filenames,
                           wire_name(files[Len(filenames) + 1], rep, keep_path))
    /\ UNCHANGED <<input0, input, keep_path, rep, files, npc, runvars, rxvars, srvvars>>

\* find_replacements and the filenames of run on every input list.
NameNext ==
    \/ \E list \in InputLists, keep \in BOOLEAN : RunArgs(list, keep)
    \/ FindReplacements
    \/ GetFileList
    \/ WireName

NameSpec == StreamInit /\ [][NameNext]_vars

\* ------------------------------------------------------------- server.rs
\* A file of the server's directory written by somebody before the
\* transfer.
PutFile(name, data) ==
    /\ ~listening
    /\ ~fs[name].exists
    /\ fs' = [fs EXCEPT ![name] = [exists |-> TRUE, data |-> data]]
    /\ UNCHANGED <<srv, listening, runvars, rxvars, namevars>>

\* server.rs:6-12: run binds the listener and enters its accept loop.
ServerRun ==
    /\ ~listening
    /\ srv = << >>
    /\ listening' = TRUE
    /\ UNCHANGED <<srv, fs, runvars, rxvars, namevars>>

\* The thread of a connection before it has read anything.
NewSession(st) ==
    [st |-> st, name |-> "", overwrite |-> FALSE, existed |-> FALSE,
     before |-> << >>, reply |-> "none", pos |-> 0]

\* server.rs:12-16: the next item of listener.incoming() is handed to a new
\* thread, which unwraps it: a failed accept panics in that thread.
AcceptConn(ok) ==
    /\ listening
    /\ Len(srv) < MaxSessions
    /\ srv' = Append(srv, NewSession(IF ok THEN "accepted" ELSE "panicked"))
    /\ UNCHANGED <<fs, listening, runvars, rxvars, namevars>>

\* server.rs:26-51: the header is read and parsed, the file created (an
\* existing one is cut to nothing) and Proceed sent.
SrvHeader(s, name, overwrite) ==
    /\ s \in DOMAIN srv
    /\ srv[s].st = "accepted"
    /\ fs' = [fs EXCEPT ![name] = [exists |-> TRUE, data |-> << >>]]
    /\ srv' = [srv EXCEPT ![s] = [st |-> "open", name |-> name,
                                  overwrite |-> overwrite,
                                  existed |-> fs[name].exists,
                                  before |-> fs[name].data,
                                  reply |-> "Proceed", pos |-> 0]]
    /\ UNCHANGED <<listening, runvars, rxvars, namevars>>

\* File::write at the cursor of the session's own handle.
file_write(d, pos, data) ==
    [i \in 1..Max(Len(d), pos + Len(data)) |->
        IF i > pos /\ i <= pos + Len(data) THEN data[i - pos]
        ELSE IF i <= Len(d) THEN d[i]
        ELSE 0]

\* server.rs:56-74: one turn of the loop with bytes read.
SrvData(s, data) ==
    /\ s \in DOMAIN srv
    /\ srv[s].st = "open"
    /\ srv[s].pos + Len(data) <= MaxSrvLen
    /\ fs' = [fs EXCEPT ![srv[s].name].data = file_write(@, srv[s].pos, data)]
    /\ srv' = [srv EXCEPT ![s].pos = @ + Len(data)]
    /\ UNCHANGED <<listening, runvars, rxvars, namevars>>

\* server.rs:58-62: the read returns 0, recv returns Ok and drops the file.
SrvEof(s) ==
    /\ s \in DOMAIN srv
    /\ srv[s].st = "open"
    /\ srv' = [srv EXCEPT ![s].st = "done"]
    /\ UNCHANGED <<fs, listening, runvars, rxvars, namevars>>

\* A panic of the whole process: the accept loop ends with the thread.
SrvFailAll(s) ==
    /\ s \in DOMAIN srv
    /\ srv[s].st \in {"accepted", "open"}
    /\ srv' = [srv EXCEPT ![s].st = "panicked"]
    /\ listening' = FALSE
    /\ UNCHANGED <<fs, runvars, rxvars, namevars>>

\* server.rs:14-16, 28-31, 58: a read fails or the header does not parse;
\* recv returns Err or panics, and the unwrap of the spawned closure ends
\* that thread.
SrvFail(s) ==
    /\ s \in DOMAIN srv
    /\ srv[s].st \in {"accepted", "open"}
    /\ srv' = [srv EXCEPT ![s].st = "panicked"]
    /\ UNCHANGED <<fs, listening, runvars, rxvars, namevars>>

\* server::run, its connections and the files they write.
ServerInit ==
    InitWith([encrypt |-> FALSE, overwrite |-> FALSE, no_delta |-> FALSE], NumFiles)

ServerNext ==
    \/ \E n \in Names : PutFile(n, <<0>>)
    \/ ServerRun
    \/ \E ok \in BOOLEAN : AcceptConn(ok)
    \/ \E s \in 1..MaxSessions, n \in Names, o \in BOOLEAN : SrvHeader(s, n, o)
    \/ \E s \in 1..MaxSessions : SrvData(s, <<1>>)
    \/ \E s \in 1..MaxSessions : SrvEof(s)
    \/ \E s \in 1..MaxSessions : SrvFail(s)

ServerSpec == ServerInit /\ [][ServerNext]_vars

TypeOK ==
    /\ threads \in Seq([num : 1..nfiles, state : {"running", "finished", "joined"}])
    /\ pc \in {"start", "ecdh", "ecdh_ack", "init", "init_ack", "same", "send",
               "end_iter", "done", "error", "panic"}
    /\ num \in 1..(nfiles + 1)
    /\ sent \in 0..nfiles
    /\ skip \in 0..nfiles

\* ------------------------------------------------- reading the connection
\* The payload the client put into a frame it sent.
TxPayload(e) == IF e.encrypted THEN e.data.plain ELSE e.data

\* The Data payloads the client has sent on this connection, in order.
DataSent == SelectSeq(wire, LAMBDA e : e.dir = "tx" /\ e.action = "Data")

NoDataSent == DataSent = << >>

\* The stage of the session an event belongs to, 0 when to none:
\* Ecdh sent, EcdhAck received, Init sent, InitAck received, non-empty Data
\* sent, empty Data sent.
Stage(e) ==
    IF e.dir = "tx" /\ e.action = "Ecdh" THEN 1
    ELSE IF e.dir = "rx" /\ e.ok /\ e.action = "EcdhAck" THEN 2
    ELSE IF e.dir = "tx" /\ e.action = "Init" THEN 3
    ELSE IF e.dir = "rx" /\ e.ok /\ e.action = "InitAck" THEN 4
    ELSE IF e.dir = "tx" /\ e.action = "Data" /\ TxPayload(e).data_len > 0 THEN 5
    ELSE IF e.dir = "tx" /\ e.action = "Data" /\ TxPayload(e).data_len = 0 THEN 6
    ELSE 0

StageOrder == {<<1, 2>>, <<2, 3>>, <<3, 4>>, <<4, 5>>, <<4, 6>>, <<5, 5>>, <<5, 6>>}

\* The events up to the i-th follow [Ecdh EcdhAck] Init InitAck Data* Data(empty).
InOrderUpTo(i) ==
    \A j \in 1..i :
        /\ Stage(wire[j]) # 0
        /\ j = 1 => Stage(wire[j]) \in {1, 3}
        /\ j > 1 => <<Stage(wire[j - 1]), Stage(wire[j])>> \in StageOrder

\* C1: in every session the frames sent and awaited follow the order
\* [Ecdh, EcdhAck] -> Init -> InitAck -> Data* -> Data(empty): whenever the
\* client sends a frame, all that came before it on the connection is a
\* completed prefix of that order.
C1_FrameOrder ==
    \A i \in 1..Len(wire) : wire[i].dir = "tx" => InOrderUpTo(i)

\* C2: when InitAck carries calc_delta_hash of the destination D and the
\* client's delta is calc_delta_hash of the source S, the destination is
\* equal to S once the terminal frame has been handled.
C2_DeltaPreservesContent ==
    (/\ pc = "end_iter"
     /\ recv # None
     /\ recv.delta = calc_delta_hash(dest0)
     /\ file_delta = calc_delta_hash(file))
    => dst = file

\* The byte range [offset, offset + data_len) of a Data payload, from 0.
Range(c) == {k \in 0..(c.offset + c.data_len - 1) : k >= c.offset}

NonEmptyData ==
    SelectSeq(DataSent, LAMBDA e : TxPayload(e).data_len > 0)

\* C3: when InitAck carries no delta, the non-empty Data frames of a
\* completed transfer have disjoint ranges whose union is [0, filesize),
\* each carries the source bytes of its range, and the receiver ends with
\* the source.
C3_FullCoverage ==
    (/\ pc = "end_iter"
     /\ recv # None
     /\ match_status(recv.status) = "proceed"
     /\ recv.delta = None)
    => LET d == NonEmptyData
       IN  /\ \A i, j \in 1..Len(d) :
                 i # j => Range(TxPayload(d[i])) \cap Range(TxPayload(d[j])) = {}
           /\ UNION {Range(TxPayload(d[i])) : i \in 1..Len(d)} = 0..(Len(file) - 1)
           /\ \A i \in 1..Len(d) :
                 LET c == TxPayload(d[i])
                 IN  /\ Len(c.data) = c.data_len
                     /\ \A k \in 1..c.data_len : c.data[k] = file[c.offset + k]
           /\ dst = file

C3_Witness ==
    /\ pc = "end_iter"
    /\ recv # None
    /\ recv.delta = None
    /\ Len(NonEmptyData) >= 2
    /\ Len(file) % DefaultChunk # 0
    /\ Len(dest0) > Len(file)

\* InitAck is Proceed and its delta has the whole-file hash of the client's.
SameFile ==
    /\ recv # None
    /\ recv.status = "Proceed"
    /\ recv.delta # None
    /\ file_delta # None
    /\ recv.delta.hash = file_delta.hash

Refused == recv # None /\ recv.status \in SkipStatuses

\* C5: on NoOverwrite, NoPermission or NoSpace the client sends no Data
\* frame on the connection, counts the file neither as sent nor as same, and
\* goes on with the next file of the list.
C5_Refused ==
    /\ [](Refused => pc = "end_iter" /\ NoDataSent)
    /\ [][Refused' => (sent' = sent /\ skip' = skip)]_vars
    /\ [][Refused => /\ num' = num + 1
                     /\ pc' = IF num < nfiles THEN "start" ELSE "done"]_vars

C5_Witness ==
    /\ Refused
    /\ pc = "end_iter"
    /\ num < nfiles

\* InitAck ends the run.
Fatal == recv # None /\ recv.status \in AbortStatuses

\* C6: on WrongVersion, RequiresEncryption or EncryptionError for file i the
\* client sends no Data frame for file i, and opens no connection and sends
\* no frame for any file after it.
C6_Fatal ==
    /\ [](Fatal => pc = "done" /\ NoDataSent)
    /\ [][Fatal => UNCHANGED <<num, pc, wire>>]_vars

C6_Witness ==
    /\ Fatal
    /\ pc = "done"
    /\ num < nfiles

\* C7: on a status other than Proceed, the three refusals and the three
\* fatal ones, the client sends no Data frame for the file.
C7_UnknownStatusAborts ==
    (recv # None /\ recv.status \notin ({"Proceed"} \cup SkipStatuses \cup AbortStatuses))
    => NoDataSent

\* C8: with encrypt set, every Init and Data frame the client sends carries
\* the Encrypted flag and a sealed payload.
C8_NeverPlaintext ==
    opt.encrypt =>
        \A i \in 1..Len(wire) :
            (wire[i].dir = "tx" /\ wire[i].action \in {"Init", "Data"})
            => (wire[i].encrypted /\ wire[i].data.t = "Sealed")

\* The action awaited after the frame sent last.
Expected(action) == IF action = "Ecdh" THEN "EcdhAck" ELSE "InitAck"

\* C9: after a received frame whose action is not the one awaited (EcdhAck
\* after Ecdh, InitAck after Init) the client sends no further frame in the
\* session.
C9_NoAdvanceOnUnexpected ==
    \A i \in 2..Len(wire) :
        (wire[i].dir = "rx" /\ wire[i].action # Expected(wire[i - 1].action))
        => i = Len(wire)

\* C10: recv_packet returns an error for every frame that has the Encrypted
\* flag when it is called with no crypto context.
C10_EncryptedNeedsContext ==
    \A i \in 1..Len(wire) :
        (wire[i].dir = "rx" /\ wire[i].encrypted /\ wire[i].dec = None)
        => ~wire[i].ok

\* The chunk sizes ChunkUnit * 2^k from v up to the first one above lim.
RECURSIVE ChunkSizesFrom(_, _)
ChunkSizesFrom(v, lim) ==
    IF v > lim THEN {v} ELSE {v} \cup ChunkSizesFrom(2 * v, lim)

\* ChunkUnit * 2^k for the smallest k with file_size / (ChunkUnit * 2^k) at
\* most ChunkRatio, and U32_MAX in its place when it is larger than that.
LeastChunk(file_size) ==
    LET fit == {v \in ChunkSizesFrom(ChunkUnit, file_size) :
                   file_size \div v <= ChunkRatio}
    IN  CHOOSE v \in fit : \A w \in fit : v <= w

SmallestChunk(file_size) ==
    IF LeastChunk(file_size) > U32_MAX THEN U32_MAX ELSE LeastChunk(file_size)

\* C13: gen_chunk_size(filesize) is 1024 * 2^k for the smallest k with
\* filesize / (1024 * 2^k) <= 2048, replaced by 2^32 - 1 when larger (in the
\* scaled numbers of the model), for the size of every file hashed.
C13_ChunkSize ==
    handle # None => handle.chunk_size = SmallestChunk(header.filesize)

C13_Witness ==
    /\ handle # None
    /\ handle.chunk_size = U32_MAX
    /\ LeastChunk(header.filesize) > U32_MAX

\* The chunk size of the walk, the two hash lists and the skip set.
WalkChunk == IF recv.delta # None THEN recv.delta.chunk_size ELSE DefaultChunk
ServerHashes == IF recv.delta # None THEN recv.delta.chunk_hash ELSE << >>
ClientHashes == IF file_delta # None THEN file_delta.chunk_hash ELSE << >>

SkipSet ==
    {i \in 0..Len(file) :
        /\ i < Len(ServerHashes)
        /\ i < Len(ClientHashes)
        /\ ServerHashes[i + 1] = ClientHashes[i + 1]}

\* The chunks that lie in the file, are not skipped and start before offset at.
DueBefore(at) ==
    {i \in 0..Len(file) :
        i * WalkChunk < Len(file) /\ i * WalkChunk < at /\ i \notin SkipSet}

\* The Data payload of chunk i: true offset, bytes read there.
ChunkOf(i) ==
    LET len == Min(WalkChunk, Len(file) - i * WalkChunk)
    IN  [t |-> "Data", offset |-> i * WalkChunk, data_len |-> len,
         data |-> [k \in 1..len |-> file[i * WalkChunk + k]]]

DataPhaseOver ==
    /\ recv # None
    /\ match_status(recv.status) = "proceed"
    /\ pc \in {"end_iter", "panic"}

\* C19: every session that reaches the data phase ends with exactly one
\* Data frame of data_len 0, its offset the filesize of the session's Init,
\* and it is the last frame the client sends.
C19_TerminalFrame ==
    DataPhaseOver =>
        /\ Len(DataSent) >= 1
        /\ Len(DataSent) - Len(NonEmptyData) = 1
        /\ wire[Len(wire)] = DataSent[Len(DataSent)]
        /\ TxPayload(wire[Len(wire)]).data_len = 0
        /\ TxPayload(wire[Len(wire)]).offset = header.filesize

\* The hasher threads launched for the file of index n.
HashersOf(n) == {i \in DOMAIN threads : threads[i].num = n}

\* A session of file n has started: its connection is being used or is over.
InSession == pc \notin {"start", "done"} \/ (pc = "done" /\ header # None)

\* C20: a hasher is launched for a file exactly when overwrite is set and
\* no_delta is not, at most one per file; a launched hasher has been joined
\* once its file's session sends a Data frame, so no hasher launched for an
\* earlier file is still running in a later file's session; when none is
\* launched the client has no delta.
C20_HasherJoined ==
    /\ \A n \in 1..nfiles : Cardinality(HashersOf(n)) <= 1
    /\ InSession => (HashersOf(num) # {} <=> (opt.overwrite /\ ~opt.no_delta))
    /\ (InSession /\ HashersOf(num) = {}) => file_delta = None
    /\ DataSent # << >> => \A i \in HashersOf(num) : threads[i].state = "joined"
    /\ pc \notin {"start", "done"} =>
          \A i \in DOMAIN threads : threads[i].num < num => threads[i].state # "running"

\* C11: recv_packet returns Err(InvalidData) and no frame whenever the
\* first 8 bytes differ from the magic, whatever the length and action
\* fields say, and it has taken no byte off the socket by then.
C11_BadMagic ==
    (rpc \in {"read", "ok", "err"} /\ SubSeq(initbuf, 1, 8) # Magic) =>
        /\ rpc = "err"
        /\ rerr = "InvalidData"
        /\ rout = None
        /\ consumed = 0
        /\ sock # << >>

C11_Witness ==
    /\ rpc = "err"
    /\ rerr = "InvalidData"
    /\ SubSeq(initbuf, 1, 4) = SubSeq(Magic, 1, 4)
    /\ is_encrypted(initbuf[13])
    /\ Len(sock) = HeaderLen + IvLen

\* C12: what send_packet wrote comes out of recv_packet with the same
\* action kind (the Encrypted flag removed) and the same payload, with no
\* crypto context at either end and with the same context at both; the
\* only failure is a socket closed before the frame's end.
C12_RoundTrip ==
    (txd # None /\ txd.t = "Sent" /\ rdec = txd.enc) =>
        /\ rpc = "ok" => (rout.action = txd.action /\ rout.data = txd.data)
        /\ rpc = "err" => (rerr = "UnexpectedEof" /\ sclosed)

C12_Witness ==
    /\ rpc = "ok"
    /\ txd # None
    /\ txd.t = "Sent"
    /\ txd.enc # None
    /\ rdec = txd.enc
    /\ Len(txd.data) = MaxPayload
    /\ rout.data = txd.data

\* recv_packet is waiting for bytes that will not come.
WaitingAtEof ==
    /\ sclosed
    /\ \/ rpc \in {"peek", "test"} /\ Len(sock) < HeaderLen
       \/ rpc = "read" /\ Len(sock) < need

\* C17: when the peer closes while recv_packet waits for a frame,
\* recv_packet eventually returns Err(UnexpectedEof), at whatever point of
\* the frame the socket was closed, before the 13th byte included.
C17_EofReturns ==
    WaitingAtEof ~> (rpc = "err" /\ rerr = "UnexpectedEof")

\* The sessions, other than s, that have opened the file of session s.
OthersOn(s) ==
    {t \in DOMAIN srv \ {s} : srv[t].reply # "none" /\ srv[t].name = srv[s].name}

\* C14: a session that receives an Init whose destination exists and whose
\* features lack Overwrite replies NoOverwrite and closes, and the file is
\* bytewise what it was.
C14_NoOverwrite ==
    \A s \in DOMAIN srv :
        (srv[s].reply # "none" /\ srv[s].existed /\ ~srv[s].overwrite) =>
            /\ srv[s].reply = "NoOverwrite"
            /\ srv[s].st = "done"
            /\ OthersOn(s) = {} => fs[srv[s].name].data = srv[s].before

\* C15: never do two sessions hold the same destination path open for
\* writing.
C15_OneWriter ==
    \A s, t \in DOMAIN srv :
        (s # t /\ srv[s].st = "open" /\ srv[t].st = "open") =>
            srv[s].name # srv[t].name

\* C16: the failure of one session changes no other session, sessions that
\* are running can still take their next step, and the listener stays in
\* its accept loop, able to spawn a thread for the next connection.
C16_Isolation ==
    /\ [][\A s \in DOMAIN srv :
            (srv[s].st # "panicked" /\ srv'[s].st = "panicked") =>
                /\ listening'
                /\ \A t \in DOMAIN srv \ {s} : srv'[t] = srv[t]
                /\ fs' = fs]_vars
    /\ [][listening => listening']_vars
    /\ []((\E s \in DOMAIN srv : srv[s].st = "panicked") =>
            /\ listening
            /\ Len(srv) < MaxSessions => ENABLED AcceptConn(TRUE)
            /\ \A t \in DOMAIN srv : srv[t].st = "open" => ENABLED SrvEof(t))

C16_Witness ==
    \E s, t \in DOMAIN srv :
        /\ s < t
        /\ srv[s].st = "panicked"
        /\ srv[s].reply = "Proceed"
        /\ srv[t].st = "done"
        /\ srv[t].pos > 0
        /\ listening

\* The bytes of chunk i (from 0) of f in chunks of size c.
ChunkBytes(f, c, i) ==
    [k \in 1..(Min((i + 1) * c, Len(f)) - i * c) |-> f[i * c + k]]

\* ceil(n / c)
CeilDiv(n, c) == (n + c - 1) \div c

\* C21: calc_delta_hash returns one digest per chunk, in file order,
\* ceil(filesize / chunk_size) of them; digest i is the hash of exactly the
\* bytes of chunk i, a short final chunk included, and the whole-file hash
\* is the hash of exactly the file's bytes.
C21_ExactDigests ==
    handle # None =>
        /\ handle.filesize = Len(file)
        /\ Len(handle.chunk_hash) = CeilDiv(Len(file), handle.chunk_size)
        /\ \A i \in 0..(Len(handle.chunk_hash) - 1) :
               handle.chunk_hash[i + 1] = Xxh3(ChunkBytes(file, handle.chunk_size, i))
        /\ handle.hash = Xxh3(file)

\* The offset past which send neither skips nor reads anything.
SendEnd == Max(Len(file), buf_len * Len(ClientHashes))

\* C23: for every delta of the InitAck, send never faults and never loops
\* for ever: every turn of its loop moves its offset forward, below a
\* bound past which the loop is left, and the loop is left with the
\* terminal Data frame.
C23_SendTerminates ==
    /\ [](pc # "panic")
    /\ [][(pc = "send" /\ pc' = "send") =>
            (send_sent < send_sent' /\ send_sent < SendEnd)]_vars
    /\ [][(pc = "send" /\ pc' # "send") =>
            (pc' = "end_iter" /\ TxPayload(wire'[Len(wire')]).data_len = 0)]_vars

\* The bytes of the first n send_packet calls, end to end.
RECURSIVE WireOf(_)
WireOf(n) ==
    IF n = 0 THEN << >>
    ELSE WireOf(n - 1)
         \o serialize(send_packet(txlog[n].action, txlog[n].enc, txlog[n].data))

\* The bytes recv_packet has taken for the first n frames it returned.
RECURSIVE TookUpTo(_)
TookUpTo(n) == IF n = 0 THEN 0 ELSE TookUpTo(n - 1) + rxlog[n].took

\* C24: for every frame it returns, recv_packet has taken exactly 13 +
\* payload_len bytes off the socket, and 12 more when the action byte has
\* the Encrypted flag; it takes nothing else, so after the frames returned
\* so far the socket stands at the first byte of the next frame, and the
\* frames send_packet wrote back to back come out whole and in order.
C24_ExactConsumption ==
    /\ \A k \in DOMAIN rxlog :
          /\ rxlog[k].took = 13 + read_u32(SubSeq(rxlog[k].init, 9, 12))
                                + (IF rxlog[k].init[13] >= 128 THEN 12 ELSE 0)
          /\ k <= Len(txlog)
          /\ rxlog[k].action = txlog[k].action
          /\ rdec = txlog[k].enc => rxlog[k].data = txlog[k].data
    /\ rpc # "err" =>
          /\ consumed = TookUpTo(Len(rxlog))
          /\ consumed = Len(WireOf(Len(rxlog)))
          /\ ~sclosed => WireOf(Len(txlog)) = WireOf(Len(rxlog)) \o sock \o pending

C24_Witness ==
    /\ Len(rxlog) = MaxFrames
    /\ rxlog[1].init[13] >= 128
    /\ rxlog[1].took = HeaderLen + MaxPayload + TagLen + IvLen
    /\ rdec = txlog[1].enc
    /\ rxlog[1].data = txlog[1].data
    /\ rxlog[MaxFrames].init[13] < 128
    /\ rxlog[MaxFrames].data = txlog[MaxFrames].data
    /\ Len(rxlog[MaxFrames].data) = MaxPayload
    /\ sock = << >>

\* The new names of the entries of the input list that rename path.
MappedTo(path) ==
    {before(after(input0[i], ":"), ":") :
        i \in {j \in DOMAIN input0 :
                  /\ input0[j] \notin Disk
                  /\ contains(input0[j], <<":">>)
                  /\ before(input0[j], ":") = path}}

\* C22: a file is transmitted under the mapped name exactly when the input
\* list has an orig:new entry whose orig is the file's path, and under its
\* own name otherwise, the directory components stripped unless keep_path
\* is set; find_replacements puts orig in the place of each orig:new entry
\* and leaves the length and order of the list as they were.
C22_WireNames ==
    /\ npc \in {"list", "names"} =>
          /\ Len(input) = Len(input0)
          /\ \A i \in DOMAIN input0 :
                input[i] = IF /\ input0[i] \notin Disk
                              /\ contains(input0[i], <<":">>)
                              /\ before(input0[i], ":") \in Disk
                           THEN before(input0[i], ":")
                           ELSE input0[i]
    /\ \A i \in DOMAIN filenames :
          LET own == IF keep_path THEN files[i] ELSE file_name(files[i])
          IN  IF MappedTo(files[i]) = {}
              THEN filenames[i] = own
              ELSE \E new \in MappedTo(files[i]) :
                      filenames[i] = IF keep_path THEN new ELSE file_name(new)

====
